---- MODULE Spec2Model ----
(***************************************************************************)
(* A model of the keiko short-link redirector.                             *)
(*                                                                         *)
(*  - the proxied worker (src/src/index.ts, lines 204-516, together with   *)
(*    src/src/analytics.ts): GET /:slug and GET /e/:slug resolve a slug    *)
(*    through a remote API with one fallback attempt, then redirect;       *)
(*  - the KV-backed worker (src/src/index.ts, lines 1-203): GET /:key      *)
(*    resolves a key from the key-value store, and the admin routes        *)
(*    create, update and delete its entries;                               *)
(*  - the earlier KV-backed worker "rinku vanilla" (src/unnamed/part_000), *)
(*    with the same routes and a key derived from a digest of the URL.     *)
(*                                                                         *)
(* Strings are sequences of one-character strings, so that startsWith,     *)
(* endsWith, includes, replace and concatenation are computed.             *)
(***************************************************************************)
EXTENDS Integers, Sequences, FiniteSets, TLC

VARIABLES
    env,        \* proxied worker: the bindings (c.env) of the deployment
    req,        \* proxied worker: the inbound request (url, route, slug)
    pc,         \* proxied worker: position of the handler
    call,       \* proxied worker: arguments of the running tryFetchWithFallback
    fetchLog,   \* proxied worker: the remote fetches issued, in order
    result,     \* proxied worker: what tryFetchWithFallback returned
    response,   \* proxied worker: the handler's response
    events,     \* proxied worker: the analytics events handed to waitUntil
    kv,         \* KV worker: the store, key -> url or Absent
    lenv,       \* KV worker: the bindings
    lreq,       \* KV worker: the key of the request being handled
    lpc,        \* KV worker: position of the handler
    lresp,      \* KV worker: the response
    levents,    \* KV worker: the analytics requests handed to waitUntil
    variant,    \* KV worker: which of the two KV-backed workers is deployed
    adm,        \* KV worker: the admin requests in flight, one per connection
    lprev,      \* history: the last answer of GET /:key since the store last changed
    ledger,     \* history: per key, what the last write's request was told, and by whom
    drawn,      \* generateKey: one byte of the array that crypto.getRandomValues filled
    symbol      \* generateKey: the character that byte was mapped to, "" before

proxyVars == <<env, req, pc, call, fetchLog, result, response, events>>
localVars == <<kv, lenv, lreq, lpc, lresp, levents, variant, adm, lprev, ledger>>
getVars == <<lenv, lreq, lpc, lresp, levents, lprev>>
keyVars == <<drawn, symbol>>
vars == <<env, req, pc, call, fetchLog, result, response, events,
          kv, lenv, lreq, lpc, lresp, levents, variant, adm, lprev, ledger,
          drawn, symbol>>

----------------------------------------------------------------------------
(* Bounds of the model.                                                    *)

\* longest path part of a destination the remote API answers with
MaxPathLen == 2

\* the answers of GET /:key to one key over an unchanged store that are counted
MaxRepeats == 2

----------------------------------------------------------------------------
(* Strings.                                                                *)

StartsWith(s, p) == Len(s) >= Len(p) /\ SubSeq(s, 1, Len(p)) = p

EndsWith(s, p) == Len(s) >= Len(p) /\ SubSeq(s, Len(s) - Len(p) + 1, Len(s)) = p

Includes(s, p) == \E i \in 0..(Len(s) - Len(p)) : SubSeq(s, i + 1, i + Len(p)) = p

\* s.replace(/\/$/, '')
StripTrailingSlash(s) == IF EndsWith(s, <<"/">>) THEN SubSeq(s, 1, Len(s) - 1) ELSE s

\* index of the first character of s at or after i that is in the set cs, or Len(s)+1
RECURSIVE FirstOf(_, _, _)
FirstOf(s, i, cs) ==
    IF i > Len(s) THEN Len(s) + 1
    ELSE IF s[i] \in cs THEN i
    ELSE FirstOf(s, i + 1, cs)

\* index of the first occurrence of p in s at or after i, or 0
RECURSIVE IndexOf(_, _, _)
IndexOf(s, p, i) ==
    IF i + Len(p) - 1 > Len(s) THEN 0
    ELSE IF SubSeq(s, i, i + Len(p) - 1) = p THEN i
    ELSE IndexOf(s, p, i + 1)

\* new URL(u).hostname for an absolute URL scheme://host[:port][/path]
Hostname(u) ==
    LET k == IndexOf(u, <<":", "/", "/">>, 1)
        from == k + 3
        to == FirstOf(u, from, {"/", ":", "?", "#"}) - 1
    IN  IF k = 0 THEN <<>> ELSE SubSeq(u, from, to)

\* all sequences over the set cs of length at most n
RECURSIVE SeqsUpTo(_, _)
SeqsUpTo(cs, n) ==
    IF n = 0 THEN {<<>>}
    ELSE LET shorter == SeqsUpTo(cs, n - 1)
         IN  shorter \cup {Append(s, c) : s \in {t \in shorter : Len(t) = n - 1}, c \in cs}

----------------------------------------------------------------------------
(* Literals of the source and the values the configuration is drawn from.  *)

HttpsPrefix == <<"h", "t", "t", "p", "s", ":", "/", "/">>
HttpLiteral == <<"h", "t", "t", "p">>
DevPrefix == <<"d", "e", "v", ".">>
ProtectedHost == <<"d", "e", "v", ".", "p", "f", "r", ".", "w", "t", "f">>
ApiPathPrefix == <<"/", "a", "p", "i", "/", "k", "e", "i", "k", "o", "/">>
InternalType == <<"i", "n", "t", "e", "r", "n", "a", "l">>
ExternalType == <<"e", "x", "t", "e", "r", "n", "a", "l">>
ExternalSlugPrefix == <<"e", "/">>

ProdHostName == <<"p", "f", "r", ".", "w", "t", "f">>
OtherDevHostName == <<"d", "e", "v", ".", "k", ".", "o">>
NestedDevHostName == <<"a", ".", "d", "e", "v", ".", "k", ".", "o">>
FallbackUrl == <<"h", "t", "t", "p", "s", ":", "/", "/", "p", "f", "r", ".", "w", "t", "f", "/">>
PlausibleSite == <<"p", "f", "r", ".", "w", "t", "f">>
Unset == <<>>

RequestHosts == {ProtectedHost, ProdHostName, OtherDevHostName, NestedDevHostName}
DevDomains == {ProtectedHost, OtherDevHostName}
Slugs == {<<"a", "b">>}
Routes == {"internal", "external"}

Envs ==
    [DOMAIN_DEV : DevDomains,
     DOMAIN_PROD : {ProdHostName},
     PLAUSIBLE_DOMAIN_DEV : {Unset, PlausibleSite},
     PLAUSIBLE_DOMAIN_PROD : {PlausibleSite},
     FALLBACK_REDIRECT : {FallbackUrl},
     DEV_CLIENT_ID : {Unset, <<"i", "d">>},
     DEV_CLIENT_SECRET : {Unset, <<"s", "k">>}]

\* c.req.url of a request for the route and slug on the host
RequestUrl(host, route, slug) ==
    HttpsPrefix \o host \o <<"/">>
        \o (IF route = "external" THEN ExternalSlugPrefix ELSE <<>>) \o slug

Requests ==
    {[url |-> RequestUrl(h, r, s), route |-> r, slug |-> s] :
        h \in RequestHosts, r \in Routes, s \in Slugs}

----------------------------------------------------------------------------
(* The remote API as the worker sees it: what one fetch can settle as.     *)

\* destinations: a path over "/" and "x", alone or behind one of these prefixes
DestinationPrefixes ==
    {<<>>,
     <<"h", "t", "t", "p", ":", "/", "/">>,
     <<"h", "t", "t", "p">>,
     <<"f", "t", "p", ":", "/", "/">>}

Destinations ==
    {p \o s : p \in DestinationPrefixes, s \in SeqsUpTo({"/", "x"}, MaxPathLen)}

ErrorTexts == {"Slug not found"}

\* what response.json() finds in the body of a JSON response:
\*   "destination"  {slug, destination}         "error"      {error, slug?}
\*   "empty"        an object with neither key  "nonobject"  JSON null
\*   "invalid"      not parseable as JSON
NoBody == [kind |-> "none", destination |-> <<>>, error |-> ""]

JsonBodies ==
    {[kind |-> "destination", destination |-> d, error |-> ""] : d \in Destinations}
    \cup {[kind |-> "error", destination |-> <<>>, error |-> e] : e \in ErrorTexts}
    \cup {[kind |-> k, destination |-> <<>>, error |-> ""] :
            k \in {"empty", "nonobject", "invalid"}}

\* content-type header values, as sequences of their parts; <<>> is no header
JsonType == <<"application/json">>
JsonCharsetType == <<"application/json", "; charset=utf-8">>
HtmlType == <<"text/html">>
NoType == <<>>
ContentTypes == {JsonType, JsonCharsetType, HtmlType, NoType}

Statuses == {200, 404}

\* response.ok
Ok(status) == 200 <= status /\ status <= 299

\* contentType && contentType.includes('application/json')
IsJsonType(ct) == ct # <<>> /\ \E i \in 1..Len(ct) : ct[i] = "application/json"

NetworkError == [network |-> TRUE, status |-> 0, contentType |-> NoType, body |-> NoBody]

\* the body of a response that is not a 2xx JSON response (a login or 404 page); the
\* worker never reads it, so one body stands for all of them
PageBody == [kind |-> "invalid", destination |-> <<>>, error |-> ""]

\* how a fetch settles: it rejects (NetworkError) or resolves with a response
FetchOutcomes ==
    {NetworkError}
    \cup {[network |-> FALSE, status |-> st, contentType |-> ct, body |-> b] :
            st \in {t \in Statuses : Ok(t)}, ct \in {t \in ContentTypes : IsJsonType(t)},
            b \in JsonBodies}
    \cup {[network |-> FALSE, status |-> st, contentType |-> ct, body |-> PageBody] :
            st \in {t \in Statuses : Ok(t)}, ct \in {t \in ContentTypes : ~IsJsonType(t)}}
    \cup {[network |-> FALSE, status |-> st, contentType |-> ct, body |-> PageBody] :
            st \in {t \in Statuses : ~Ok(t)}, ct \in {JsonType, HtmlType}}

----------------------------------------------------------------------------
(* Environment helpers of the proxied worker.                              *)

\* isDev(c): the request hostname starts with 'dev.'
isDev(r) == StartsWith(Hostname(r.url), DevPrefix)

\* getApiBase(c)
getApiBase(e, r) ==
    HttpsPrefix \o StripTrailingSlash(IF isDev(r) THEN e.DOMAIN_DEV ELSE e.DOMAIN_PROD)

\* getApiEndpoint(c, type, slug)
getApiEndpoint(e, r, type, slug) ==
    getApiBase(e, r) \o ApiPathPrefix \o type \o <<"/">> \o slug \o <<"/">>

\* a getTTL that takes any hostname containing 'dev.' for a development one
getTTLOnDevAnywhere(r) ==
    IF Includes(Hostname(r.url), DevPrefix) THEN 86400 ELSE 2592000

\* getTTL(c)
getTTL(r) == IF isDev(r) THEN 86400 ELSE 2592000

----------------------------------------------------------------------------
(* tryFetchWithFallback.                                                   *)

NoUrl == <<>>
NoCall == [apiUrl |-> NoUrl, fallbackUrl |-> NoUrl]
NoResponse == [network |-> FALSE, status |-> 0, contentType |-> NoType, body |-> NoBody]
NoResult == [response |-> NoResponse, error |-> ""]

\* AttachCredentials with the bug of keying on the 'dev.' prefix as isDev does
AttachCredentialsOnDevPrefix(e, apiUrl) ==
    /\ StartsWith(Hostname(apiUrl), DevPrefix)
    /\ e.DEV_CLIENT_ID # Unset
    /\ e.DEV_CLIENT_SECRET # Unset

\* the Cloudflare Access headers are added to the request for apiUrl
AttachCredentials(e, apiUrl) ==
    /\ Hostname(apiUrl) = ProtectedHost
    /\ e.DEV_CLIENT_ID # Unset
    /\ e.DEV_CLIENT_SECRET # Unset

\* a test of the response that looks at response.ok only
FetchSucceededOnOk(o) == ~o.network /\ Ok(o.status)

\* the fetch of apiUrl succeeded: a 2xx response with a JSON content type
FetchSucceeded(o) == ~o.network /\ Ok(o.status) /\ IsJsonType(o.contentType)

\* the message of the Error a failed fetch without fallback is returned with
FailureMessage(o) ==
    IF o.network THEN "fetch failed"
    ELSE IF Ok(o.status)
    THEN IF o.contentType = NoType
         THEN "Expected JSON response but got unknown content type"
         ELSE "Expected JSON response but got text/html"
    ELSE IF o.status = 404 THEN "API returned status 404"
    ELSE "API returned status 500"

\* TryFallback with the bug of falling back only from the catch block
TryFallbackOnRejectionOnly(cl, o) == cl.fallbackUrl # NoUrl /\ o.network

\* a fetch that failed as o is followed by the fallback: `if (fallbackUrl)`, the same
\* test after a non-JSON 2xx response, a non-2xx response and a rejected fetch
TryFallback(cl, o) == cl.fallbackUrl # NoUrl

\* FallbackCall with the bug of passing the fallback URL on to the recursive call
FallbackCallKeepsFallback(cl) == [apiUrl |-> cl.fallbackUrl, fallbackUrl |-> cl.fallbackUrl]

\* the arguments of the recursive call tryFetchWithFallback(c, fallbackUrl)
FallbackCall(cl) == [apiUrl |-> cl.fallbackUrl, fallbackUrl |-> NoUrl]

\* app.get: the handler builds both URL forms and calls tryFetchWithFallback
FirstCall(e, r) ==
    LET apiUrlWithSlash ==
            getApiEndpoint(e, r, IF r.route = "internal" THEN InternalType ELSE ExternalType,
                           r.slug)
    IN  [apiUrl |-> apiUrlWithSlash, fallbackUrl |-> StripTrailingSlash(apiUrlWithSlash)]

\* tryFetchWithFallback up to its await: the headers are prepared and the fetch issued
TryFetchIssue ==
    /\ pc = "try"
    /\ fetchLog' = Append(fetchLog,
            [url |-> call.apiUrl,
             credentials |-> AttachCredentials(env, call.apiUrl),
             settled |-> FALSE,
             outcome |-> NoResponse])
    /\ pc' = "fetching"
    /\ UNCHANGED <<env, req, call, result, response, events>>
    /\ UNCHANGED localVars
    /\ UNCHANGED keyVars

\* the fetch settles and tryFetchWithFallback goes on: it returns the response,
\* calls itself with the fallback URL, or returns an error
TryFetchSettle ==
    /\ pc = "fetching"
    /\ \E o \in FetchOutcomes :
        /\ fetchLog' = [fetchLog EXCEPT ![Len(fetchLog)] =
                            [@ EXCEPT !.settled = TRUE, !.outcome = o]]
        /\ IF FetchSucceeded(o)
           THEN /\ result' = [response |-> o, error |-> ""]
                /\ pc' = "returned"
                /\ call' = call
           ELSE IF TryFallback(call, o)
           THEN /\ call' = FallbackCall(call)
                /\ pc' = "try"
                /\ result' = result
           ELSE /\ result' = [response |-> NoResponse, error |-> FailureMessage(o)]
                /\ pc' = "returned"
                /\ call' = call
    /\ UNCHANGED <<env, req, response, events>>
    /\ UNCHANGED localVars
    /\ UNCHANGED keyVars

----------------------------------------------------------------------------
(* sendAnalytics (src/src/analytics.ts).                                   *)

NoProps == [slug |-> <<>>, destination |-> <<>>, error |-> ""]

\* sendAnalytics up to its await: the event as handed to waitUntil. With no Plausible
\* domain configured it returns at once ("skipped"); otherwise the POST to Plausible
\* has been issued ("posting") and the promise is pending.
sendAnalytics(e, r, name, props) ==
    LET isDevUrl == Includes(r.url, e.DOMAIN_DEV)
        plausibleDomain ==
            IF isDevUrl THEN e.PLAUSIBLE_DOMAIN_DEV ELSE e.PLAUSIBLE_DOMAIN_PROD
    IN  [name |-> name,
         props |-> props,
         domain |-> Hostname(r.url),
         state |-> IF plausibleDomain = Unset THEN "skipped" ELSE "posting",
         requests |-> IF plausibleDomain = Unset THEN 0 ELSE 1]

\* how the POST to Plausible settles: a 2xx response, another response, or a rejection
DeliveryOutcomes == {"ok", "not ok", "rejected"}

\* AfterDelivery with the bug of posting again after a failed delivery
AfterDeliveryRetries(ev, o) ==
    IF o = "ok" THEN [ev EXCEPT !.state = "delivered"]
    ELSE [ev EXCEPT !.requests = @ + 1]

\* the state of the event's promise once the POST has settled as o: sendAnalytics
\* resolves in every case, after console.error for a failed delivery
AfterDelivery(ev, o) ==
    [ev EXCEPT !.state = IF o = "ok" THEN "delivered" ELSE "logged"]

\* the rest of sendAnalytics, run by the runtime whenever the POST settles
AnalyticsSettle ==
    /\ \E i \in 1..Len(events) :
        /\ events[i].state = "posting"
        /\ \E o \in DeliveryOutcomes :
            events' = [events EXCEPT ![i] = AfterDelivery(@, o)]
    /\ UNCHANGED <<env, req, pc, call, fetchLog, result, response>>
    /\ UNCHANGED localVars
    /\ UNCHANGED keyVars

----------------------------------------------------------------------------
(* The handlers app.get("/:slug") and app.get("/e/:slug").                 *)

NoCache == [present |-> FALSE, maxAge |-> 0]
NoReply == [status |-> 0, location |-> <<>>, cacheControl |-> NoCache]

\* cacheOptions.cacheControl: `public, max-age=${getTTL(c)}`
CacheControl(r) == [present |-> TRUE, maxAge |-> getTTL(r)]

\* the slug an event carries: slug on /:slug, `e/${slug}` on /e/:slug
EventSlug(r) == IF r.route = "external" THEN ExternalSlugPrefix \o r.slug ELSE r.slug

\* InternalTarget with the bug of leaving out the trailing slash
InternalTargetNoTrailingSlash(e, r, destination) ==
    IF ~StartsWith(destination, HttpLiteral)
    THEN getApiBase(e, r)
            \o (IF ~StartsWith(destination, <<"/">>)
                THEN <<"/">> \o destination ELSE destination)
    ELSE destination

\* /:slug: the redirect target of data.destination
InternalTarget(e, r, destination) ==
    IF ~StartsWith(destination, HttpLiteral)
    THEN LET d1 == IF ~StartsWith(destination, <<"/">>)
                   THEN <<"/">> \o destination ELSE destination
             d2 == IF ~EndsWith(d1, <<"/">>) THEN d1 \o <<"/">> ELSE d1
         IN  getApiBase(e, r) \o d2
    ELSE destination

\* /e/:slug: the redirect target of data.destination
ExternalTarget(destination) ==
    IF ~StartsWith(destination, HttpLiteral) /\ ~EndsWith(destination, <<"/">>)
    THEN destination \o <<"/">>
    ELSE destination

\* SuccessStatus with the bug of leaving the status to c.redirect's default
SuccessStatusDefault(route) == 302

\* the status of the final c.redirect of the route
SuccessStatus(route) == IF route = "internal" THEN 301 ELSE 302

\* FallbackReply with the bug of answering 404 instead of redirecting
FallbackReplyNotFound(e, cache) ==
    [status |-> 404, location |-> <<>>, cacheControl |-> cache]

\* c.redirect(c.env.FALLBACK_REDIRECT, 302); the headers set on the context so far
\* (cache) go out with it
FallbackReply(e, cache) ==
    [status |-> 302, location |-> e.FALLBACK_REDIRECT, cacheControl |-> cache]

\* The try block of the handler, after tryFetchWithFallback has returned res: the
\* events it hands to waitUntil, the Cache-Control header it sets on the context, and
\* either the response it returns or the message of the exception it throws.
TryBlock(e, r, res) ==
    LET data == res.response.body
        base == [thrown |-> "", events |-> <<>>, cache |-> NoCache, reply |-> NoReply]
        errorEvent(m) ==
            sendAnalytics(e, r, "error", [NoProps EXCEPT !.slug = EventSlug(r), !.error = m])
        redirectEvent ==
            sendAnalytics(e, r, "redirect",
                [NoProps EXCEPT !.slug = EventSlug(r), !.destination = data.destination])
    IN  IF res.error # "" \/ res.response = NoResponse
        THEN [base EXCEPT !.events = <<errorEvent(res.error)>>,
                          !.reply = FallbackReply(e, NoCache)]
        ELSE IF data.kind = "invalid"
        THEN [base EXCEPT !.thrown = "Unexpected token < in JSON"]
        ELSE IF data.kind = "nonobject"
        THEN [base EXCEPT !.thrown = "Cannot use 'in' operator to search for 'error'"]
        ELSE IF data.kind = "error"
        THEN [base EXCEPT !.events = <<errorEvent(data.error)>>,
                          !.reply = FallbackReply(e, NoCache)]
        ELSE IF data.kind = "empty"
        THEN [base EXCEPT !.events = <<redirectEvent>>,
                          !.cache = CacheControl(r),
                          !.thrown = "Cannot read properties of undefined"]
        ELSE [base EXCEPT !.events = <<redirectEvent>>,
                          !.cache = CacheControl(r),
                          !.reply =
                              [status |-> SuccessStatus(r.route),
                               location |-> IF r.route = "internal"
                                            THEN InternalTarget(e, r, data.destination)
                                            ELSE ExternalTarget(data.destination),
                               cacheControl |-> CacheControl(r)]]

\* The catch block of the handler: an error event and the fallback redirect.
CatchBlock(e, r, t) ==
    [events |-> Append(t.events,
                    sendAnalytics(e, r, "error",
                        [NoProps EXCEPT !.slug = EventSlug(r), !.error = t.thrown])),
     reply |-> FallbackReply(e, t.cache)]

\* what the handler does once tryFetchWithFallback has returned res
Handle(e, r, res) ==
    LET t == TryBlock(e, r, res)
    IN  IF t.thrown # "" THEN CatchBlock(e, r, t) ELSE [events |-> t.events, reply |-> t.reply]

\* the handler up to its call of tryFetchWithFallback
HandlerStart ==
    /\ pc = "start"
    /\ call' = FirstCall(env, req)
    /\ pc' = "try"
    /\ UNCHANGED <<env, req, fetchLog, result, response, events>>
    /\ UNCHANGED localVars
    /\ UNCHANGED keyVars

\* the handler from the return of tryFetchWithFallback to its own return
HandlerFinish ==
    /\ pc = "returned"
    /\ LET h == Handle(env, req, result)
       IN  /\ events' = events \o h.events
           /\ response' = h.reply
    /\ pc' = "done"
    /\ UNCHANGED <<env, req, call, fetchLog, result>>
    /\ UNCHANGED localVars
    /\ UNCHANGED keyVars

----------------------------------------------------------------------------
(* The KV-backed workers: src/src/index.ts, lines 1-203 ("keiko"), and     *)
(* src/unnamed/part_000 ("vanilla"). One of them is deployed (variant).    *)
(* The store is taken to answer the admin routes: a rejection of KV.get is *)
(* followed on the public route GET /:key only.                            *)

Absent == <<>>
Variants == {"keiko", "vanilla"}

\* if (key.length > 32)
MaxKeyLength == 32
\* new Uint8Array(8)
RandomKeyLength == 8

ShortKey == <<"a">>
LongKey == [i \in 1..(MaxKeyLength + 1) |-> "k"]
\* the keys a client names, in a body or in a path: a short one and one of 33 characters
LocalKeys == {ShortKey, LongKey}

KeyAlphabet ==
    <<"A", "B", "C", "D", "E", "F", "G", "H", "I", "J", "K", "L", "M",
      "N", "O", "P", "Q", "R", "S", "T", "U", "V", "W", "X", "Y", "Z",
      "a", "b", "c", "d", "e", "f", "g", "h", "i", "j", "k", "l", "m",
      "n", "o", "p", "q", "r", "s", "t", "u", "v", "w", "x", "y", "z",
      "0", "1", "2", "3", "4", "5", "6", "7", "8", "9">>

\* the values of an element of a Uint8Array
Bytes == 0..255

\* a mapping of the byte that takes it modulo 61
KeySymbolModulo61(n) == KeyAlphabet[(n % 61) + 1]

\* the callback of generateKey's map: the character of the alphabet at n % 62
KeySymbol(n) == KeyAlphabet[(n % 62) + 1]

\* generateKey() for the bytes that crypto.getRandomValues drew
generateKey(bytes) == [i \in 1..Len(bytes) |-> KeySymbol(bytes[i])]

\* the draws of crypto.getRandomValues(new Uint8Array(8)) followed: all 62, all 255
RandomDraws == {[i \in 1..RandomKeyLength |-> b] : b \in {62, 255}}
RandomKeys == {generateKey(d) : d \in RandomDraws}

HttpPrefix == <<"h", "t", "t", "p", ":", "/", "/">>
SchemeMark == <<":", "/", "/">>

\* body.url of an admin request
BodyUrls ==
    {<<"h", "t", "t", "p", ":", "/", "/", "x">>,
     <<"y">>}

\* s.replace(p, q) for a string p: the first occurrence only
ReplaceFirst(s, p, q) ==
    LET k == IndexOf(s, p, 1)
    IN  IF k = 0 THEN s
        ELSE SubSeq(s, 1, k - 1) \o q \o SubSeq(s, k + Len(p), Len(s))

\* an ensureHttps that only adds the scheme where there is none
ensureHttpsWhereBare(url) ==
    IF StartsWith(url, HttpPrefix) \/ StartsWith(url, HttpsPrefix) THEN url
    ELSE HttpsPrefix \o url

\* ensureHttps(url)
ensureHttps(url) ==
    IF StartsWith(url, HttpPrefix) THEN ReplaceFirst(url, HttpPrefix, HttpsPrefix)
    ELSE IF ~StartsWith(url, HttpsPrefix) THEN HttpsPrefix \o url
    ELSE url

StoredUrls == {ensureHttps(u) : u \in BodyUrls} \cup {u \in BodyUrls : Includes(u, SchemeMark)}
LocalEnvs == [PLAUSIBLE_DOMAIN : {Unset, PlausibleSite}]

\* the connections admin requests arrive on
Procs == {1, 2}

NoLocalReply == [kind |-> "none", status |-> 0, location |-> <<>>]
NoPrev == [key |-> <<>>, reply |-> NoLocalReply, times |-> 0]
NoEntry == [said |-> Absent, by |-> 0]

\* the history after GET /:key of the key was answered with the reply: how many times
\* in a row the key has been answered since the store last changed, up to MaxRepeats
Answered(prev, key, reply) ==
    [key |-> key, reply |-> reply,
     times |-> IF prev.key # key THEN 1
               ELSE IF prev.times < MaxRepeats THEN prev.times + 1
               ELSE MaxRepeats]

\* how KV.get(key) settles: it resolves with the stored value or null, or it rejects
\* (a key the store refuses, the store unreachable)
KvGetOutcomes == {"resolved", "rejected"}

\* a store that deletes the key a lookup has just read
KvAfterGetConsuming(store, key) == [store EXCEPT ![key] = Absent]

\* the store after KV.get(key): a lookup writes nothing
KvAfterGet(store, key) == store

\* a put that keeps the value of a key that is present
KvPutIfAbsent(store, key, url) ==
    IF store[key] = Absent THEN [store EXCEPT ![key] = url] ELSE store

\* the store after KV.put(key, url)
KvPut(store, key, url) == [store EXCEPT ![key] = url]

\* the store after KV.delete(key)
KvDelete(store, key) == [store EXCEPT ![key] = Absent]

\* length of hash.slice(curr, curr+5)
WindowLength == 5

\* s.slice(a, b) for 0 <= a <= b
Slice(s, a, b) == SubSeq(s, a + 1, IF b < Len(s) THEN b ELSE Len(s))

\* the encoded SHA-512 digest of a URL (btoa and the three replaceAll of part_000,
\* lines 64-72) as a table over the URLs followed; the real one has 88 characters
\* or more, the table keeps the first six
Digest(url) ==
    IF url = <<"h", "t", "t", "p", ":", "/", "/", "x">>
    THEN <<"p", "q", "r", "s", "t", "u">>
    ELSE IF url = <<"h", "t", "t", "p", "s", ":", "/", "/", "y">>
    THEN <<"q", "r", "s", "t", "u", "v">>
    ELSE <<"r", "s", "t", "u", "v", "w">>

\* the keys the digests of the URLs followed start with
DigestKeys == {Slice(Digest(u), 0, WindowLength) : u \in {v \in BodyUrls : Includes(v, SchemeMark)}}

\* the keys of a store
StoreKeys == LocalKeys \cup RandomKeys \cup DigestKeys

\* the keys a request names in its path
PathKeys == LocalKeys \cup (IF variant = "keiko" THEN RandomKeys ELSE DigestKeys)

\* v === undefined for what KV.get resolved with: Workers KV resolves with the value
\* or with null, never with undefined
IsUndefined(v) == FALSE

\* body of PUT /api/new and of POST /api/new: url and key, either of them missing
CreateBodies == [url : BodyUrls \cup {Unset}, key : LocalKeys \cup {Unset}]

\* an admin connection: the request it handles (op, key, url, whether the key came
\* with the body), the handler's position, what its last KV.get of a key reported
\* (probe), the offset of the digest window (curr), and the response
NoProbe == [key |-> <<>>, present |-> FALSE]
NoAdminReply == [status |-> 0, key |-> <<>>, url |-> <<>>]
Idle ==
    [pc |-> "idle", op |-> "none", key |-> <<>>, url |-> <<>>, custom |-> FALSE,
     probe |-> NoProbe, curr |-> 0, resp |-> NoAdminReply]

\* a handler that answers 200 where it means to refuse
RefuseWithOk(r, status) ==
    [r EXCEPT !.pc = "done", !.resp = [status |-> 200, key |-> <<>>, url |-> <<>>]]

\* the handler returns an error response of the status
Refuse(r, status) ==
    [r EXCEPT !.pc = "done", !.resp = [status |-> status, key |-> <<>>, url |-> <<>>]]

\* the handler returns c.json({ key, url })
Accept(r, key, url) ==
    [r EXCEPT !.pc = "done", !.resp = [status |-> 200, key |-> key, url |-> url]]

\* the handler has awaited KV.get(r.key) and found value
Probed(r, value) == [r EXCEPT !.probe = [key |-> r.key, present |-> value # Absent]]

----------------------------------------------------------------------------
(* GET /:key of the worker of index.ts.                                    *)

\* a request is handled on its own: nothing of the public request before it is kept
ForgetGet ==
    /\ lpc' = (IF lpc = "off" THEN "off" ELSE "idle")
    /\ lreq' = <<>>
    /\ lresp' = NoLocalReply
    /\ levents' = <<>>
    /\ UNCHANGED <<lenv, lprev>>

\* GET /:key up to its await of KV.get; nothing of the admin requests before it is kept
LocalGetStart ==
    /\ lpc \in {"idle", "done"}
    /\ \E key \in PathKeys : lreq' = key
    /\ lpc' = "get"
    /\ lresp' = NoLocalReply
    /\ levents' = <<>>
    /\ adm' = [p \in Procs |-> Idle]
    /\ UNCHANGED <<kv, lenv, variant, lprev, ledger>>
    /\ UNCHANGED proxyVars
    /\ UNCHANGED keyVars

\* a response of GET /:key that redirects with 301
LocalReplyPermanent(e, url) ==
    IF url = Absent
    THEN [events |-> <<>>,
          reply |-> [kind |-> "notfound", status |-> 404, location |-> <<>>]]
    ELSE [events |-> <<>>,
          reply |-> [kind |-> "redirect", status |-> 301, location |-> url]]

\* the response of GET /:key once KV.get has resolved with url, and the analytics
\* request it hands to waitUntil
LocalReply(e, url) ==
    IF url = Absent
    THEN [events |-> <<>>,
          reply |-> [kind |-> "notfound", status |-> 404, location |-> <<>>]]
    ELSE [events |-> IF e.PLAUSIBLE_DOMAIN # Unset
                     THEN <<[name |-> "pageview", state |-> "posting"]>>
                     ELSE <<>>,
          reply |-> [kind |-> "redirect", status |-> 302, location |-> url]]

\* the handler has no try/catch: a rejection of KV.get leaves it as an exception
LocalThrown == [kind |-> "thrown", status |-> 0, location |-> <<>>]

\* GET /:key from the settling of KV.get to the handler's end
LocalGetFinish ==
    /\ variant = "keiko"
    /\ lpc = "get"
    /\ \E o \in KvGetOutcomes :
        IF o = "rejected"
        THEN /\ lresp' = LocalThrown
             /\ levents' = levents
             /\ lprev' = lprev
        ELSE LET h == LocalReply(lenv, kv[lreq])
             IN  /\ lresp' = h.reply
                 /\ levents' = h.events
                 /\ lprev' = Answered(lprev, lreq, h.reply)
    /\ lpc' = "done"
    /\ kv' = KvAfterGet(kv, lreq)
    /\ UNCHANGED <<lenv, lreq, variant, adm, ledger>>
    /\ UNCHANGED proxyVars
    /\ UNCHANGED keyVars

\* the POST to Plausible handed to waitUntil settles
LocalAnalyticsSettle ==
    /\ \E i \in 1..Len(levents) :
        /\ levents[i].state = "posting"
        /\ levents' = [levents EXCEPT ![i].state = "settled"]
    /\ UNCHANGED <<kv, lenv, lreq, lpc, lresp, variant, adm, lprev, ledger>>
    /\ UNCHANGED proxyVars
    /\ UNCHANGED keyVars

----------------------------------------------------------------------------
(* The admin routes of the worker of index.ts, on connection p. Each       *)
(* action runs the handler from one await to the next.                     *)

\* key.length > 32
KeyTooLong(key) == Len(key) > MaxKeyLength

\* PUT /api/new up to its first await of KV.get
KeikoCreateStart(p) ==
    /\ variant = "keiko"
    /\ adm[p].pc \in {"idle", "done"}
    /\ \E body \in CreateBodies, draw \in RandomDraws :
        LET r == [Idle EXCEPT !.op = "create", !.key = body.key, !.url = body.url,
                              !.custom = (body.key # Unset)]
        IN  adm' = [adm EXCEPT ![p] =
                IF body.url = Unset THEN Refuse(r, 400)
                ELSE IF body.key # Unset
                     THEN IF KeyTooLong(body.key) THEN Refuse(r, 400)
                          ELSE [r EXCEPT !.pc = "check"]
                     ELSE [r EXCEPT !.pc = "check", !.key = generateKey(draw)]]
    /\ UNCHANGED <<kv, ledger, variant>>
    /\ ForgetGet
    /\ UNCHANGED proxyVars
    /\ UNCHANGED keyVars

\* a test of the value KV.get resolved with that takes every key for a free one
KeyTakenNever(value) == FALSE

\* if (existing), while (await c.env.KV.get(key)): the value is truthy
KeyTaken(value) == value # Absent

\* PUT /api/new from the settling of KV.get(key) to the next await: 409 for a custom
\* key that exists, another generated key and another KV.get for a generated one
KeikoCreateCheck(p) ==
    /\ variant = "keiko"
    /\ adm[p].pc = "check"
    /\ adm[p].op = "create"
    /\ LET r == Probed(adm[p], kv[adm[p].key])
       IN  IF ~KeyTaken(kv[r.key])
           THEN adm' = [adm EXCEPT ![p] = [r EXCEPT !.pc = "write"]]
           ELSE IF r.custom
           THEN adm' = [adm EXCEPT ![p] = Refuse(r, 409)]
           ELSE \E draw \in RandomDraws :
                    adm' = [adm EXCEPT ![p] = [r EXCEPT !.key = generateKey(draw)]]
    /\ UNCHANGED <<kv, ledger, variant>>
    /\ UNCHANGED getVars
    /\ UNCHANGED proxyVars
    /\ UNCHANGED keyVars

\* PUT /api/new from KV.put(key, ensureHttps(body.url)) to its response
KeikoCreateWrite(p) ==
    /\ variant = "keiko"
    /\ adm[p].pc = "write"
    /\ adm[p].op = "create"
    /\ LET key == adm[p].key
           url == ensureHttps(adm[p].url)
       IN  /\ kv' = KvPut(kv, key, url)
           /\ adm' = [adm EXCEPT ![p] = Accept(@, key, url)]
           /\ ledger' = [ledger EXCEPT ![key] = [said |-> url, by |-> p]]
    /\ lprev' = NoPrev
    /\ UNCHANGED <<lenv, lreq, lpc, lresp, levents, variant>>
    /\ UNCHANGED proxyVars
    /\ UNCHANGED keyVars

\* PATCH /api/:key up to its await of KV.get
KeikoUpdateStart(p) ==
    /\ variant = "keiko"
    /\ adm[p].pc \in {"idle", "done"}
    /\ \E key \in PathKeys, url \in BodyUrls \cup {Unset} :
        LET r == [Idle EXCEPT !.op = "update", !.key = key, !.url = url, !.custom = TRUE]
        IN  adm' = [adm EXCEPT ![p] =
                IF url = Unset THEN Refuse(r, 400) ELSE [r EXCEPT !.pc = "check"]]
    /\ UNCHANGED <<kv, ledger, variant>>
    /\ ForgetGet
    /\ UNCHANGED proxyVars
    /\ UNCHANGED keyVars

\* PATCH /api/:key from the settling of KV.get: 404 for a key that is not there
KeikoUpdateCheck(p) ==
    /\ variant = "keiko"
    /\ adm[p].pc = "check"
    /\ adm[p].op = "update"
    /\ LET r == Probed(adm[p], kv[adm[p].key])
       IN  adm' = [adm EXCEPT ![p] =
               IF ~KeyTaken(kv[r.key]) THEN Refuse(r, 404) ELSE [r EXCEPT !.pc = "write"]]
    /\ UNCHANGED <<kv, ledger, variant>>
    /\ UNCHANGED getVars
    /\ UNCHANGED proxyVars
    /\ UNCHANGED keyVars

\* PATCH /api/:key from KV.put(key, ensureHttps(body.url)) to its response
KeikoUpdateWrite(p) ==
    /\ variant = "keiko"
    /\ adm[p].pc = "write"
    /\ adm[p].op = "update"
    /\ LET key == adm[p].key
           url == ensureHttps(adm[p].url)
       IN  /\ kv' = KvPut(kv, key, url)
           /\ adm' = [adm EXCEPT ![p] = Accept(@, key, url)]
           /\ ledger' = [ledger EXCEPT ![key] = [said |-> url, by |-> p]]
    /\ lprev' = NoPrev
    /\ UNCHANGED <<lenv, lreq, lpc, lresp, levents, variant>>
    /\ UNCHANGED proxyVars
    /\ UNCHANGED keyVars

\* DELETE /api/:key up to its await of KV.get
KeikoDeleteStart(p) ==
    /\ variant = "keiko"
    /\ adm[p].pc \in {"idle", "done"}
    /\ \E key \in PathKeys :
        adm' = [adm EXCEPT ![p] =
            [Idle EXCEPT !.op = "delete", !.key = key, !.custom = TRUE, !.pc = "check"]]
    /\ UNCHANGED <<kv, ledger, variant>>
    /\ ForgetGet
    /\ UNCHANGED proxyVars
    /\ UNCHANGED keyVars

\* DELETE /api/:key from the settling of KV.get: 404 for a key that is not there
KeikoDeleteCheck(p) ==
    /\ variant = "keiko"
    /\ adm[p].pc = "check"
    /\ adm[p].op = "delete"
    /\ LET r == Probed(adm[p], kv[adm[p].key])
       IN  adm' = [adm EXCEPT ![p] =
               IF ~KeyTaken(kv[r.key]) THEN Refuse(r, 404) ELSE [r EXCEPT !.pc = "write"]]
    /\ UNCHANGED <<kv, ledger, variant>>
    /\ UNCHANGED getVars
    /\ UNCHANGED proxyVars
    /\ UNCHANGED keyVars

\* DELETE /api/:key from KV.delete(key) to its response { message: 'Deleted' }
KeikoDeleteWrite(p) ==
    /\ variant = "keiko"
    /\ adm[p].pc = "write"
    /\ adm[p].op = "delete"
    /\ LET key == adm[p].key
       IN  /\ kv' = KvDelete(kv, key)
           /\ adm' = [adm EXCEPT ![p] = Accept(@, key, Absent)]
           /\ ledger' = [ledger EXCEPT ![key] = [said |-> Absent, by |-> p]]
    /\ lprev' = NoPrev
    /\ UNCHANGED <<lenv, lreq, lpc, lresp, levents, variant>>
    /\ UNCHANGED proxyVars
    /\ UNCHANGED keyVars

----------------------------------------------------------------------------
(* The worker of part_000 ("rinku vanilla"), on connection p. Its error    *)
(* responses are built by err(code, c) from the body http.cat answers      *)
(* with.                                                                   *)

\* GET /:key from the settling of KV.get to the handler's end
VanillaGetFinish ==
    /\ variant = "vanilla"
    /\ lpc = "get"
    /\ \E o \in KvGetOutcomes :
        IF o = "rejected"
        THEN /\ lresp' = LocalThrown
             /\ lprev' = lprev
        ELSE LET reply == IF kv[lreq] = Absent
                          THEN [kind |-> "notfound", status |-> 404, location |-> <<>>]
                          ELSE [kind |-> "redirect", status |-> 302, location |-> kv[lreq]]
             IN  /\ lresp' = reply
                 /\ lprev' = Answered(lprev, lreq, reply)
    /\ lpc' = "done"
    /\ kv' = KvAfterGet(kv, lreq)
    /\ UNCHANGED <<lenv, lreq, levents, variant, adm, ledger>>
    /\ UNCHANGED proxyVars
    /\ UNCHANGED keyVars

\* POST /api/new up to its first await of KV.get: 404 without body.url, 406 for a url
\* without '://', the first window of the digest as the key when body.key is missing
VanillaCreateStart(p) ==
    /\ variant = "vanilla"
    /\ adm[p].pc \in {"idle", "done"}
    /\ \E body \in CreateBodies :
        LET r == [Idle EXCEPT !.op = "create", !.key = body.key, !.url = body.url,
                              !.custom = (body.key # Unset)]
        IN  adm' = [adm EXCEPT ![p] =
                IF body.url = Unset THEN Refuse(r, 404)
                ELSE IF ~Includes(body.url, SchemeMark) THEN Refuse(r, 406)
                ELSE IF body.key = Unset
                     THEN [r EXCEPT !.pc = "probe",
                                    !.key = Slice(Digest(body.url), 0, WindowLength)]
                     ELSE [r EXCEPT !.pc = "check"]]
    /\ UNCHANGED <<kv, ledger, variant>>
    /\ ForgetGet
    /\ UNCHANGED proxyVars
    /\ UNCHANGED keyVars

\* POST /api/new, the loop of lines 79-82: from the settling of its KV.get to the next
\* await
VanillaCreateProbe(p) ==
    /\ variant = "vanilla"
    /\ adm[p].pc = "probe"
    /\ LET r == Probed(adm[p], kv[adm[p].key])
       IN  adm' = [adm EXCEPT ![p] =
               IF IsUndefined(kv[r.key])
               THEN [r EXCEPT !.key = Slice(Digest(r.url), r.curr, r.curr + WindowLength),
                              !.curr = r.curr + 1]
               ELSE [r EXCEPT !.pc = "check"]]
    /\ UNCHANGED <<kv, ledger, variant>>
    /\ UNCHANGED getVars
    /\ UNCHANGED proxyVars
    /\ UNCHANGED keyVars

\* POST /api/new from the settling of the KV.get of line 84 to its response: the put
\* is started and not awaited, or 409
VanillaCreateCheck(p) ==
    /\ variant = "vanilla"
    /\ adm[p].pc = "check"
    /\ adm[p].op = "create"
    /\ LET r == Probed(adm[p], kv[adm[p].key])
       IN  adm' = [adm EXCEPT ![p] =
               IF ~r.probe.present
               THEN [r EXCEPT !.pc = "landing",
                              !.resp = [status |-> 200, key |-> r.key, url |-> <<>>]]
               ELSE Refuse(r, 409)]
    /\ UNCHANGED <<kv, ledger, variant>>
    /\ UNCHANGED getVars
    /\ UNCHANGED proxyVars
    /\ UNCHANGED keyVars

\* the KV.put(body.key, body.url) that POST /api/new started reaches the store
VanillaCreateLands(p) ==
    /\ variant = "vanilla"
    /\ adm[p].pc = "landing"
    /\ LET key == adm[p].key
           url == adm[p].url
       IN  /\ kv' = KvPut(kv, key, url)
           /\ adm' = [adm EXCEPT ![p].pc = "done"]
           /\ ledger' = [ledger EXCEPT ![key] = [said |-> url, by |-> p]]
    /\ lprev' = NoPrev
    /\ UNCHANGED <<lenv, lreq, lpc, lresp, levents, variant>>
    /\ UNCHANGED proxyVars
    /\ UNCHANGED keyVars

\* PATCH /:key up to its await of KV.get: 412 without body.url
VanillaUpdateStart(p) ==
    /\ variant = "vanilla"
    /\ adm[p].pc \in {"idle", "done"}
    /\ \E key \in PathKeys, url \in BodyUrls \cup {Unset} :
        LET r == [Idle EXCEPT !.op = "update", !.key = key, !.url = url, !.custom = TRUE]
        IN  adm' = [adm EXCEPT ![p] =
                IF url = Unset THEN Refuse(r, 412) ELSE [r EXCEPT !.pc = "check"]]
    /\ UNCHANGED <<kv, ledger, variant>>
    /\ ForgetGet
    /\ UNCHANGED proxyVars
    /\ UNCHANGED keyVars

\* PATCH /:key from the settling of KV.get to KV.delete: line 103 builds err(417, c)
\* when the value is undefined, and goes on without returning it
VanillaUpdateCheck(p) ==
    /\ variant = "vanilla"
    /\ adm[p].pc = "check"
    /\ adm[p].op = "update"
    /\ LET r == Probed(adm[p], kv[adm[p].key])
       IN  adm' = [adm EXCEPT ![p] =
               [r EXCEPT !.pc = "delete"]]
    /\ UNCHANGED <<kv, ledger, variant>>
    /\ UNCHANGED getVars
    /\ UNCHANGED proxyVars
    /\ UNCHANGED keyVars

\* PATCH /:key from KV.delete(key) to KV.put
VanillaUpdateDelete(p) ==
    /\ variant = "vanilla"
    /\ adm[p].pc = "delete"
    /\ LET key == adm[p].key
       IN  /\ kv' = KvDelete(kv, key)
           /\ adm' = [adm EXCEPT ![p].pc = "write"]
           /\ ledger' = [ledger EXCEPT ![key] = [said |-> Absent, by |-> p]]
    /\ lprev' = NoPrev
    /\ UNCHANGED <<lenv, lreq, lpc, lresp, levents, variant>>
    /\ UNCHANGED proxyVars
    /\ UNCHANGED keyVars

\* PATCH /:key from KV.put(key, body.url) to its response
VanillaUpdateWrite(p) ==
    /\ variant = "vanilla"
    /\ adm[p].pc = "write"
    /\ adm[p].op = "update"
    /\ LET key == adm[p].key
           url == adm[p].url
       IN  /\ kv' = KvPut(kv, key, url)
           /\ adm' = [adm EXCEPT ![p] = Accept(@, key, <<>>)]
           /\ ledger' = [ledger EXCEPT ![key] = [said |-> url, by |-> p]]
    /\ lprev' = NoPrev
    /\ UNCHANGED <<lenv, lreq, lpc, lresp, levents, variant>>
    /\ UNCHANGED proxyVars
    /\ UNCHANGED keyVars

\* DELETE /:key up to its await of KV.delete
VanillaDeleteStart(p) ==
    /\ variant = "vanilla"
    /\ adm[p].pc \in {"idle", "done"}
    /\ \E key \in PathKeys :
        adm' = [adm EXCEPT ![p] =
            [Idle EXCEPT !.op = "delete", !.key = key, !.custom = TRUE, !.pc = "write"]]
    /\ UNCHANGED <<kv, ledger, variant>>
    /\ ForgetGet
    /\ UNCHANGED proxyVars
    /\ UNCHANGED keyVars

\* DELETE /:key from KV.delete(key) to its response
VanillaDeleteWrite(p) ==
    /\ variant = "vanilla"
    /\ adm[p].pc = "write"
    /\ adm[p].op = "delete"
    /\ LET key == adm[p].key
       IN  /\ kv' = KvDelete(kv, key)
           /\ adm' = [adm EXCEPT ![p] = Accept(@, key, <<>>)]
           /\ ledger' = [ledger EXCEPT ![key] = [said |-> Absent, by |-> p]]
    /\ lprev' = NoPrev
    /\ UNCHANGED <<lenv, lreq, lpc, lresp, levents, variant>>
    /\ UNCHANGED proxyVars
    /\ UNCHANGED keyVars

----------------------------------------------------------------------------
(* The specifications: one request to the proxied worker (Spec), and       *)
(* requests to the KV-backed worker over any store (SpecLocal).            *)

ProxyOff ==
    /\ env = CHOOSE e \in Envs : TRUE
    /\ req = CHOOSE r \in Requests : TRUE
    /\ pc = "off"
    /\ call = NoCall
    /\ fetchLog = <<>>
    /\ result = NoResult
    /\ response = NoReply
    /\ events = <<>>

LocalOff ==
    /\ kv = [k \in StoreKeys |-> Absent]
    /\ lenv = CHOOSE e \in LocalEnvs : TRUE
    /\ lreq = <<>>
    /\ lpc = "off"
    /\ lresp = NoLocalReply
    /\ levents = <<>>
    /\ variant = "keiko"
    /\ adm = [p \in Procs |-> Idle]
    /\ lprev = NoPrev
    /\ ledger = [k \in StoreKeys |-> NoEntry]

\* no key is being generated
KeyOff ==
    /\ drawn = 0
    /\ symbol = ""

Init ==
    /\ KeyOff
    /\ env \in Envs
    /\ req \in Requests
    /\ pc = "start"
    /\ call = NoCall
    /\ fetchLog = <<>>
    /\ result = NoResult
    /\ response = NoReply
    /\ events = <<>>
    /\ LocalOff

Next ==
    \/ HandlerStart
    \/ TryFetchIssue
    \/ TryFetchSettle
    \/ HandlerFinish
    \/ AnalyticsSettle

Spec == Init /\ [][Next]_vars

\* a deployment of one of the KV-backed workers over an empty store
InitStore ==
    /\ kv = [k \in StoreKeys |-> Absent]
    /\ variant \in Variants
    /\ lenv \in {e \in LocalEnvs : variant = "vanilla" => e.PLAUSIBLE_DOMAIN = Unset}
    /\ lreq = <<>>
    /\ lresp = NoLocalReply
    /\ levents = <<>>
    /\ adm = [p \in Procs |-> Idle]
    /\ lprev = NoPrev
    /\ ledger = [k \in StoreKeys |-> NoEntry]
    /\ ProxyOff
    /\ KeyOff

InitLocal ==
    /\ InitStore
    /\ lpc = "idle"

\* no request is being handled
Quiet == lpc \in {"idle", "done"} /\ \A p \in Procs : adm[p].pc \in {"idle", "done"}

\* public requests and the admin requests of one connection, one request after the
\* other
NextLocal ==
    \/ Quiet /\ LocalGetStart
    \/ LocalGetFinish
    \/ VanillaGetFinish
    \/ LocalAnalyticsSettle
    \/ Quiet /\ KeikoCreateStart(1)
    \/ KeikoCreateCheck(1)
    \/ KeikoCreateWrite(1)
    \/ Quiet /\ KeikoUpdateStart(1)
    \/ KeikoUpdateCheck(1)
    \/ KeikoUpdateWrite(1)
    \/ Quiet /\ KeikoDeleteStart(1)
    \/ KeikoDeleteCheck(1)
    \/ KeikoDeleteWrite(1)
    \/ Quiet /\ VanillaCreateStart(1)
    \/ VanillaCreateProbe(1)
    \/ VanillaCreateCheck(1)
    \/ VanillaCreateLands(1)
    \/ Quiet /\ VanillaUpdateStart(1)
    \/ VanillaUpdateCheck(1)
    \/ VanillaUpdateDelete(1)
    \/ VanillaUpdateWrite(1)
    \/ Quiet /\ VanillaDeleteStart(1)
    \/ VanillaDeleteWrite(1)

SpecLocal == InitLocal /\ [][NextLocal]_vars

InitRace ==
    /\ InitStore
    /\ lenv.PLAUSIBLE_DOMAIN = Unset
    /\ lpc = "off"

\* one create request on each of two connections, at once
NextRace ==
    \E p \in Procs :
        \/ adm[p].pc = "idle" /\ KeikoCreateStart(p)
        \/ KeikoCreateCheck(p)
        \/ KeikoCreateWrite(p)
        \/ adm[p].pc = "idle" /\ VanillaCreateStart(p)
        \/ VanillaCreateProbe(p)
        \/ VanillaCreateCheck(p)
        \/ VanillaCreateLands(p)

SpecRace == InitRace /\ [][NextRace]_vars

\* generateKey's map over one element of the array: the byte becomes a character
GenerateKeyMap ==
    /\ symbol = ""
    /\ symbol' = KeySymbol(drawn)
    /\ UNCHANGED drawn
    /\ UNCHANGED proxyVars
    /\ UNCHANGED localVars

\* crypto.getRandomValues has filled the array: the element is any byte
InitKey ==
    /\ drawn \in Bytes
    /\ symbol = ""
    /\ ProxyOff
    /\ LocalOff

NextKey == GenerateKeyMap

SpecKey == InitKey /\ [][NextKey]_vars

----------------------------------------------------------------------------
(* What the claims speak of, in terms of the requests the worker made and  *)
(* the answers it got.                                                     *)

\* the attempt settled as a failure: network error, non-2xx status or no JSON type
AttemptFailed(o) ==
    \/ o.network
    \/ o.status < 200 \/ o.status > 299
    \/ \A i \in 1..Len(o.contentType) : o.contentType[i] # "application/json"

\* the answer of the last attempt, once the handler is done
LastOutcome == fetchLog[Len(fetchLog)].outcome

\* the remote API answered with a destination: the outcome is a successful Redirect
Resolved ==
    /\ pc = "done"
    /\ ~AttemptFailed(LastOutcome)
    /\ LastOutcome.body.kind = "destination"

\* the resolution failed: in transport, by an {error} body, or while handling the body
ResolutionFailed == pc = "done" /\ ~Resolved

PrimaryUrl ==
    getApiBase(env, req) \o ApiPathPrefix
        \o (IF req.route = "internal" THEN InternalType ELSE ExternalType)
        \o <<"/">> \o req.slug \o <<"/">>

SecondaryUrl == SubSeq(PrimaryUrl, 1, Len(PrimaryUrl) - 1)

----------------------------------------------------------------------------
\* C1: a request issues at most two remote fetches, the primary URL first; the
\* secondary is issued only once the primary has settled as a failure (never while
\* it is in flight), and after the secondary no further fetch is issued.
C1_AtMostTwoSequentialFetches ==
    /\ Len(fetchLog) <= 2
    /\ Len(fetchLog) >= 1 => fetchLog[1].url = PrimaryUrl
    /\ Len(fetchLog) = 2 =>
        /\ fetchLog[1].settled
        /\ AttemptFailed(fetchLog[1].outcome)
        /\ fetchLog[2].url = SecondaryUrl
    /\ Cardinality({i \in 1..Len(fetchLog) : ~fetchLog[i].settled}) <= 1
    /\ pc \in {"returned", "done"} => \A i \in 1..Len(fetchLog) : fetchLog[i].settled

\* both attempts were made and the secondary has settled
C1_Witness ==
    /\ pc = "done"
    /\ Len(fetchLog) = 2
    /\ fetchLog[2].settled
    /\ AttemptFailed(fetchLog[2].outcome)

\* C2: in proxied mode every resolution failure ends in a 302 redirect to
\* FALLBACK_REDIRECT, and an {error} body is reported as a resolution failure whose
\* message is the body's error, not as a transport failure.
C2_FailureRedirectsToFallback ==
    /\ ResolutionFailed =>
        /\ response.status = 302
        /\ response.location = env.FALLBACK_REDIRECT
    /\ (pc = "done" /\ ~AttemptFailed(LastOutcome) /\ LastOutcome.body.kind = "error") =>
        /\ Len(events) = 1
        /\ events[1].name = "error"
        /\ events[1].props.error = LastOutcome.body.error

\* the secondary answered with an {error} body and the request was sent to the fallback
C2_Witness ==
    /\ pc = "done"
    /\ Len(fetchLog) = 2
    /\ ~AttemptFailed(LastOutcome)
    /\ LastOutcome.body.kind = "error"
    /\ response.location = env.FALLBACK_REDIRECT

\* C7: a remote fetch carries the two Cloudflare Access headers only when its target
\* hostname is the protected development host, by the same rule on both attempts.
C7_CredentialsOnlyForProtectedHost ==
    /\ \A i \in 1..Len(fetchLog) :
        /\ fetchLog[i].credentials => Hostname(fetchLog[i].url) = ProtectedHost
        /\ fetchLog[i].credentials =
            (/\ Hostname(fetchLog[i].url) = ProtectedHost
             /\ env.DEV_CLIENT_ID # Unset
             /\ env.DEV_CLIENT_SECRET # Unset)
    /\ Len(fetchLog) = 2 => fetchLog[1].credentials = fetchLog[2].credentials

\* both attempts went to the protected host and carried the credentials
C7_Witness ==
    /\ Len(fetchLog) = 2
    /\ fetchLog[1].credentials
    /\ fetchLog[2].credentials
    /\ Hostname(fetchLog[2].url) = ProtectedHost

----------------------------------------------------------------------------
\* C4: the response carries the Cache-Control header only when the outcome is a
\* successful Redirect; every response that ends in the fallback redirect has none.
C4_CacheControlOnlyOnRedirect ==
    pc = "done" =>
        /\ response.cacheControl.present => Resolved
        /\ ResolutionFailed => ~response.cacheControl.present

\* C5: every path through the resolver hands exactly one analytics event to
\* waitUntil: "redirect" on success, "error" on a failure.
C5_ExactlyOneEvent ==
    pc = "done" =>
        /\ Len(events) = 1
        /\ events[1].name = IF Resolved THEN "redirect" ELSE "error"

\* C6: analytics is fire-and-forget. The handler returns while the delivery is still
\* pending; whatever the delivery does afterwards leaves the response as it is; an
\* event is posted at most once; a failed delivery ends logged, never rejected.
C6_FireAndForget ==
    /\ [](\A i \in 1..Len(events) :
            /\ events[i].requests <= 1
            /\ events[i].state \in {"skipped", "posting", "delivered", "logged"})
    /\ [][/\ (pc # "done" /\ pc' = "done") =>
                \A i \in 1..Len(events') : events'[i].state \in {"skipped", "posting"}
          /\ pc = "done" => (pc' = "done" /\ response' = response)
          /\ \A i \in 1..Len(events) :
                /\ i <= Len(events')
                /\ events'[i].requests = events[i].requests
                /\ events[i].state # "posting" => events'[i] = events[i]]_vars

\* the response was a successful redirect and the delivery of its event failed later
C6_Witness ==
    /\ Resolved
    /\ response.status = 301
    /\ Len(events) = 1
    /\ events[1].state = "logged"

\* the destination carries a URL scheme: letters, then "://"
HasScheme(d) ==
    \E k \in 2..(Len(d) - 2) :
        /\ SubSeq(d, k, k + 2) = <<":", "/", "/">>
        /\ \A j \in 1..(k - 1) : d[j] \notin {"/", ":"}

\* C8 as stated: the status of a successful redirect follows the destination's syntax,
\* 302 for a destination with a scheme and 301 for one without.
C8_StatusBySyntax ==
    Resolved =>
        response.status = IF HasScheme(LastOutcome.body.destination) THEN 302 ELSE 301

\* C8, amended: the status of a successful redirect follows the route, whatever the
\* destination's syntax: 301 on /:slug and 302 on /e/:slug.
C8_StatusByRoute ==
    Resolved => response.status = IF req.route = "internal" THEN 301 ELSE 302

\* /:slug redirected permanently to a destination that carries a scheme
C8_Witness ==
    /\ Resolved
    /\ req.route = "internal"
    /\ HasScheme(LastOutcome.body.destination)
    /\ response.status = 301
    /\ response.location = LastOutcome.body.destination

RECURSIVE LeadingSlashes(_)
LeadingSlashes(s) ==
    IF s = <<>> \/ Head(s) # "/" THEN 0 ELSE 1 + LeadingSlashes(Tail(s))

RECURSIVE TrailingSlashes(_)
TrailingSlashes(s) ==
    IF s = <<>> \/ s[Len(s)] # "/" THEN 0
    ELSE 1 + TrailingSlashes(SubSeq(s, 1, Len(s) - 1))

\* s without its leading and trailing slashes
Core(s) ==
    IF LeadingSlashes(s) = Len(s) THEN <<>>
    ELSE SubSeq(s, LeadingSlashes(s) + 1, Len(s) - TrailingSlashes(s))

AtLeastOne(n) == IF n < 1 THEN 1 ELSE n

\* the part of the redirect target that follows the API base
AfterBase(location) ==
    SubSeq(location, Len(getApiBase(env, req)) + 1, Len(location))

\* C9 as stated: on /:slug a destination without a scheme is redirected to the API
\* base followed by the destination with exactly one leading and exactly one trailing
\* slash; a destination with a scheme is passed through unchanged.
C9_ExactlyOneSlashEachEnd ==
    (Resolved /\ req.route = "internal") =>
        LET d == LastOutcome.body.destination
            n == AfterBase(response.location)
        IN  IF HasScheme(d)
            THEN response.location = d
            ELSE /\ StartsWith(response.location, getApiBase(env, req))
                 /\ LeadingSlashes(n) = 1
                 /\ TrailingSlashes(n) = 1
                 /\ Core(n) = Core(d)

\* C9, amended: on /:slug a destination that does not start with "http" is redirected
\* to the API base followed by the destination, with a slash put in front if it has
\* none there and a slash put behind if it has none there; slashes it already has are
\* kept, so each end has exactly one slash when the destination has at most one
\* there. A destination that starts with "http" is passed through unchanged.
C9_SlashEnsuredEachEnd ==
    (Resolved /\ req.route = "internal") =>
        LET d == LastOutcome.body.destination
            n == AfterBase(response.location)
        IN  IF StartsWith(d, HttpLiteral)
            THEN response.location = d
            ELSE /\ StartsWith(response.location, getApiBase(env, req))
                 /\ LeadingSlashes(n) = AtLeastOne(LeadingSlashes(d))
                 /\ TrailingSlashes(n) = AtLeastOne(TrailingSlashes(d))
                 /\ Core(n) = Core(d)
                 /\ LeadingSlashes(d) <= 1 => LeadingSlashes(n) = 1
                 /\ TrailingSlashes(d) <= 1 => TrailingSlashes(n) = 1

\* /:slug resolved a destination that begins with two slashes, and both were kept
C9_Witness ==
    /\ Resolved
    /\ req.route = "internal"
    /\ LeadingSlashes(LastOutcome.body.destination) = 2
    /\ response.location = getApiBase(env, req) \o LastOutcome.body.destination

\* the response is the Redirect built from the destination d on the route
IsRedirectOf(reply, route, d) ==
    /\ reply.cacheControl.present
    /\ IF route = "internal"
       THEN /\ reply.status = 301
            /\ IF StartsWith(d, HttpLiteral)
               THEN reply.location = d
               ELSE /\ StartsWith(reply.location, getApiBase(env, req))
                    /\ Core(AfterBase(reply.location)) = Core(d)
                    /\ LeadingSlashes(AfterBase(reply.location)) = AtLeastOne(LeadingSlashes(d))
                    /\ TrailingSlashes(AfterBase(reply.location)) = AtLeastOne(TrailingSlashes(d))
       ELSE /\ reply.status = 302
            /\ IF StartsWith(d, HttpLiteral) \/ TrailingSlashes(d) >= 1
               THEN reply.location = d
               ELSE reply.location = d \o <<"/">>

\* C10: when the primary fails with a non-2xx status the secondary is tried, and when
\* it answers 200 JSON with a destination without a scheme the outcome is the Redirect
\* built from that body, the same as when the primary answers with it; for "/x" on
\* /:slug that is {apiBase}/x/ with status 301.
C10_SecondaryOutcomeIsRedirect ==
    /\ (pc = "done" /\ ~fetchLog[1].outcome.network /\ ~Ok(fetchLog[1].outcome.status))
            => Len(fetchLog) = 2
    /\ (Resolved /\ ~HasScheme(LastOutcome.body.destination)) =>
        /\ IsRedirectOf(response, req.route, LastOutcome.body.destination)
        /\ Len(events) = 1
        /\ events[1].name = "redirect"
        /\ events[1].props.destination = LastOutcome.body.destination
        /\ (req.route = "internal" /\ LastOutcome.body.destination = <<"/", "x">>) =>
            /\ response.location = getApiBase(env, req) \o <<"/", "x", "/">>
            /\ response.status = 301

\* the primary answered 404, the secondary 200 JSON with "/x", and /:slug redirected
\* to {apiBase}/x/ with 301
C10_Witness ==
    /\ Resolved
    /\ req.route = "internal"
    /\ Len(fetchLog) = 2
    /\ fetchLog[1].outcome.status = 404
    /\ fetchLog[2].outcome.status = 200
    /\ LastOutcome.body.destination = <<"/", "x">>
    /\ response.status = 301
    /\ response.location = getApiBase(env, req) \o <<"/", "x", "/">>

----------------------------------------------------------------------------
\* C11 (as stated): the cache max-age is 86400 when the inbound hostname contains the
\* configured development marker (DOMAIN_DEV), and 2592000 for every other hostname.
C11_MaxAgeByConfiguredMarker ==
    Resolved =>
        response.cacheControl.maxAge =
            IF Includes(Hostname(req.url), env.DOMAIN_DEV) THEN 86400 ELSE 2592000

\* C11 (amended): the cache max-age of a redirect to a resolved destination depends on
\* the inbound hostname only: 86400 when the hostname starts with the literal 'dev.',
\* 2592000 for every other hostname, whatever DOMAIN_DEV is configured.
C11_MaxAgeByDevPrefix ==
    Resolved =>
        /\ response.cacheControl.present
        /\ response.cacheControl.maxAge =
            IF StartsWith(Hostname(req.url), DevPrefix) THEN 86400 ELSE 2592000

\* a resolved request on a hostname that contains the configured DOMAIN_DEV, and
\* 'dev.', but does not start with it: the redirect is cached for 2592000 seconds
C11_Witness ==
    /\ Resolved
    /\ Hostname(req.url) = NestedDevHostName
    /\ Includes(Hostname(req.url), env.DOMAIN_DEV)
    /\ response.cacheControl.maxAge = 2592000

----------------------------------------------------------------------------
\* C21: one remote attempt is a success, and its response the result of the call, if
\* and only if the fetch resolved with a 2xx status and a JSON content type; a rejected
\* fetch, a non-2xx status and a 2xx response with no or another content type are
\* failures: the primary's is followed by the secondary attempt, the secondary's by an
\* error result.
C21_SuccessIsOkJson ==
    \A i \in 1..Len(fetchLog) :
        fetchLog[i].settled =>
            LET o == fetchLog[i].outcome
                good == /\ ~o.network
                        /\ o.status \in 200..299
                        /\ o.contentType \in {JsonType, JsonCharsetType}
            IN  IF good
                THEN /\ i = Len(fetchLog)
                     /\ pc \in {"returned", "done"}
                     /\ result = [response |-> o, error |-> ""]
                ELSE IF i = 1
                THEN \/ pc = "try" /\ Len(fetchLog) = 1 /\ call.apiUrl = SecondaryUrl
                     \/ Len(fetchLog) = 2 /\ fetchLog[2].url = SecondaryUrl
                ELSE /\ pc \in {"returned", "done"}
                     /\ result.response = NoResponse
                     /\ result.error # ""

\* the primary answered 200 with an HTML page, the secondary 200 with no content type,
\* and the call returned an error
C21_Witness ==
    /\ Len(fetchLog) = 2
    /\ fetchLog[1].outcome.status = 200
    /\ fetchLog[1].outcome.contentType = HtmlType
    /\ fetchLog[2].settled
    /\ fetchLog[2].outcome.status = 200
    /\ fetchLog[2].outcome.contentType = NoType
    /\ result.response = NoResponse
    /\ result.error = "Expected JSON response but got unknown content type"

----------------------------------------------------------------------------
\* C22: within one request the environment is one determination: the analytics domain
\* is the development one exactly when the cache TTL and the API base are.
C22_SingleEnvironment ==
    \A i \in 1..Len(events) :
        LET devBase == StartsWith(PrimaryUrl, HttpsPrefix \o StripTrailingSlash(env.DOMAIN_DEV))
            devTtl == getTTL(req) = 86400
            plausibleDomain ==
                IF devTtl THEN env.PLAUSIBLE_DOMAIN_DEV ELSE env.PLAUSIBLE_DOMAIN_PROD
        IN  /\ devBase = devTtl
            /\ (events[i].state = "skipped") = (plausibleDomain = Unset)

----------------------------------------------------------------------------
(* The KV-backed workers: what the claims speak of.                        *)

NotFoundReply == [kind |-> "notfound", status |-> 404, location |-> <<>>]
RedirectReply(url) == [kind |-> "redirect", status |-> 302, location |-> url]

\* GET /:key is answered in this step (KV.get resolved)
GetAnswers == lpc = "get" /\ lpc' = "done" /\ lresp'.kind # "thrown"

\* connection p takes a step of its request
Steps(p) == adm'[p] # adm[p]

\* the value the create request of connection p hands to KV.put
Wrote(p) == IF variant = "keiko" THEN ensureHttps(adm[p].url) ELSE adm[p].url

\* the create request of connection p was answered with success
Created(p) == adm[p].op = "create" /\ adm[p].pc = "done" /\ adm[p].resp.status = 200

----------------------------------------------------------------------------
\* C12: resolution is idempotent over an unchanged store: a key that GET /:key answered
\* since the store last changed is answered again with the same destination and the
\* same class, and no step of a resolution request changes the store.
C12_ResolutionIdempotent ==
    [][/\ (GetAnswers /\ lprev.key = lreq) => lresp' = lprev.reply
       /\ (lpc = "get" \/ lpc' = "get") => kv' = kv]_vars

\* the same key was answered twice in a row over an unchanged store, with a redirect
C12_Witness ==
    /\ lpc = "done"
    /\ lresp.kind = "redirect"
    /\ lprev.key = lreq
    /\ lprev.times >= 2
    /\ lprev.reply = lresp

----------------------------------------------------------------------------
\* C13: after any sequence of admin create, update and delete requests, GET /:key
\* redirects with 302 to exactly the destination the last successful create or update
\* of the key was told, when no delete followed it, and answers NotFound otherwise.
C13_GetFollowsLatestWrite ==
    [][GetAnswers =>
        lresp' = IF ledger[lreq].said = Absent THEN NotFoundReply
                 ELSE RedirectReply(ledger[lreq].said)]_vars

\* the worker of index.ts redirected a generated key to the url a create or an update
\* stored under it
C13_Witness ==
    /\ variant = "keiko"
    /\ lpc = "done"
    /\ lresp.status = 302
    /\ lreq \in RandomKeys
    /\ ledger[lreq].by = 1
    /\ lresp.location = HttpsPrefix \o <<"y">>
    /\ kv[lreq] = lresp.location

----------------------------------------------------------------------------
\* C14: a create request without a custom key writes only under a key that its last
\* KV.get reported absent, under the random and under the digest strategy.
C14_GeneratedKeyAbsentAtCheck ==
    [][\A p \in Procs :
        (/\ adm[p].op = "create"
         /\ ~adm[p].custom
         /\ adm[p].pc \in {"write", "landing"}
         /\ adm'[p].pc = "done")
            => adm[p].probe = [key |-> adm[p].key, present |-> FALSE]]_vars

\* two creates without a custom key ended with success under different random keys
C14_Witness ==
    /\ variant = "keiko"
    /\ \A p \in Procs : Created(p) /\ ~adm[p].custom /\ kv[adm[p].key] # Absent
    /\ adm[1].key # adm[2].key

----------------------------------------------------------------------------
\* C15: key creation is check-then-act: two create requests with the same key that both
\* pass the check before either writes both succeed, neither gets 409, and the store
\* holds the later write.
C15_RaceLastWriteWins ==
    /\ [](\A k \in StoreKeys :
            (\A p \in Procs : Created(p) /\ adm[p].key = k)
                => /\ ledger[k].by \in Procs
                   /\ kv[k] = Wrote(ledger[k].by))
    /\ [][\A p \in Procs :
            (adm[p].pc = "write" /\ Steps(p))
                => /\ adm'[p].pc = "done"
                   /\ adm'[p].resp.status = 200
                   /\ kv'[adm[p].key] = Wrote(p)]_vars

\* both connections created the same custom key with different urls, and the store
\* holds the url of the one that wrote last
C15_Witness ==
    /\ \A p \in Procs : Created(p) /\ adm[p].custom /\ adm[p].key = ShortKey
    /\ Wrote(1) # Wrote(2)
    /\ ledger[ShortKey].by = 2
    /\ kv[ShortKey] = Wrote(2)

----------------------------------------------------------------------------
\* C16: a create request with a custom key of more than 32 characters is answered with
\* a 400-class error at once, before any step that could write.
C16_LongCustomKeyRefused ==
    \A p \in Procs :
        (adm[p].op = "create" /\ adm[p].custom /\ Len(adm[p].key) > MaxKeyLength)
            => (adm[p].pc = "done" /\ adm[p].resp.status \in 400..499)

----------------------------------------------------------------------------
\* C17: a create request with a custom key that the store holds is answered 409, and
\* the step that answers it leaves every entry of the store as it was.
C17_ExistingCustomKeyConflict ==
    [][\A p \in Procs :
        (/\ adm[p].op = "create"
         /\ adm[p].custom
         /\ adm[p].pc = "check"
         /\ kv[adm[p].key] # Absent
         /\ Steps(p))
            => /\ adm'[p].pc = "done"
               /\ adm'[p].resp.status = 409
               /\ kv' = kv]_vars

\* a create of the short key was answered 409 and the entry is the one created before
C17_Witness ==
    /\ adm[1].op = "create"
    /\ adm[1].key = ShortKey
    /\ adm[1].resp.status = 409
    /\ kv[ShortKey] # Absent
    /\ kv[ShortKey] # Wrote(1)
    /\ ledger[ShortKey].by = 1

----------------------------------------------------------------------------
\* C18: an update of a key that the store does not hold is answered 404 and writes
\* nothing, and a step of an update changes no entry but that of its key, which it
\* never makes absent.
C18_UpdateNeverCreates ==
    [][\A p \in Procs :
        (adm[p].op = "update" /\ Steps(p)) =>
            /\ (adm[p].pc = "check" /\ kv[adm[p].key] = Absent)
                    => (adm'[p].pc = "done" /\ adm'[p].resp.status = 404 /\ kv' = kv)
            /\ \A k \in StoreKeys :
                    kv'[k] # kv[k] => (k = adm[p].key /\ kv[k] # Absent /\ kv'[k] # Absent)]_vars

----------------------------------------------------------------------------
\* C19: a delete request always ends with a success response, whether the key is there
\* or not, and leaves the key absent and every other entry as it was.
C19_DeleteAlwaysSucceeds ==
    [][\A p \in Procs :
        (adm[p].op = "delete" /\ Steps(p) /\ adm'[p].pc = "done") =>
            /\ adm'[p].resp.status = 200
            /\ kv'[adm[p].key] = Absent
            /\ \A k \in StoreKeys \ {adm[p].key} : kv'[k] = kv[k]]_vars

----------------------------------------------------------------------------
\* C20: every key the store holds has at most 32 characters and maps to one url.
C20_StoredKeysBounded ==
    \A k \in StoreKeys :
        kv[k] # Absent => (Len(k) <= MaxKeyLength /\ kv[k] \in StoredUrls)

----------------------------------------------------------------------------
\* C23: the key that deterministic generation hands to the creation is a 5-character
\* window of the digest of the destination that is free in the store, and it is the
\* window at offset 0 unless that one is taken.
C23_FirstFreeWindow ==
    \A p \in Procs :
        (/\ variant = "vanilla"
         /\ adm[p].op = "create"
         /\ ~adm[p].custom
         /\ adm[p].pc = "check")
        => LET hash == Digest(adm[p].url)
               first == Slice(hash, 0, WindowLength)
           IN  /\ \E n \in 0..Len(hash) : adm[p].key = Slice(hash, n, n + WindowLength)
               /\ kv[adm[p].key] = Absent
               /\ (adm[p].key # first => kv[first] # Absent)

----------------------------------------------------------------------------
\* C24: the probe loop of deterministic generation ends in one of two ways only: with
\* a window that is free, or with a failure once the offset is past the end of the
\* digest.
C24_FreeWindowOrExhausted ==
    [][\A p \in Procs :
        (/\ variant = "vanilla"
         /\ adm[p].pc = "probe"
         /\ adm'[p].pc # "probe")
        => \/ adm'[p].pc = "check" /\ kv[adm'[p].key] = Absent
           \/ /\ adm'[p].pc = "done"
              /\ adm'[p].resp.status >= 400
              /\ adm[p].curr > Len(Digest(adm[p].url))]_vars

----------------------------------------------------------------------------
\* values of body.url around the three branches of ensureHttps
UrlSamples ==
    {pre \o rest :
        pre \in {<<>>, HttpPrefix, HttpsPrefix, <<"h", "t", "t", "p">>,
                 <<"H", "T", "T", "P", ":", "/", "/">>},
        rest \in {<<>>, <<"a">>, HttpPrefix \o <<"a">>}}

\* C25: in the KV-backed worker every stored destination starts with "https://";
\* ensureHttps maps "http://a" and "a" to "https://a", gives a value that starts with
\* "https://" for every input, and leaves a value that starts with "https://" as it is.
C25_StoredDestinationsAreHttps ==
    /\ variant = "keiko" =>
            \A k \in StoreKeys : kv[k] # Absent => StartsWith(kv[k], HttpsPrefix)
    /\ ensureHttps(HttpPrefix \o <<"a">>) = HttpsPrefix \o <<"a">>
    /\ ensureHttps(<<"a">>) = HttpsPrefix \o <<"a">>
    /\ \A u \in UrlSamples \cup BodyUrls :
            /\ StartsWith(ensureHttps(u), HttpsPrefix)
            /\ StartsWith(u, HttpsPrefix) => ensureHttps(u) = u
            /\ ensureHttps(ensureHttps(u)) = ensureHttps(u)

\* a create of "http://x" and an update to "y" have both been stored with the scheme
C25_Witness ==
    /\ variant = "keiko"
    /\ adm[1].op = "update"
    /\ adm[1].pc = "done"
    /\ adm[1].resp.status = 200
    /\ adm[1].url = <<"y">>
    /\ kv[adm[1].key] = HttpsPrefix \o <<"y">>
    /\ \E k \in StoreKeys : kv[k] = HttpsPrefix \o <<"x">>

----------------------------------------------------------------------------
\* the position of a character in the alphabet, from 1
AlphabetIndex(c) == CHOOSE i \in 1..Len(KeyAlphabet) : KeyAlphabet[i] = c

\* the bytes that generateKey maps to the character c
Preimages(c) == {n \in Bytes : KeySymbol(n) = c}

\* C26 as stated: the first 4 characters of the alphabet, and only those, have one
\* more byte mapped to them than the remaining characters.
C26_FirstFourHaveOneMore ==
    symbol # "" =>
        Cardinality(Preimages(symbol)) =
            Cardinality(Preimages(KeyAlphabet[Len(KeyAlphabet)]))
                + (IF AlphabetIndex(symbol) <= 4 THEN 1 ELSE 0)

\* C26: the mapping of a byte modulo 62 onto the alphabet is not uniform: the first
\* 8 characters of the alphabet, and only those, have 5 bytes mapped to them, the
\* remaining 54 have 4.
C26_FirstEightHaveOneMore ==
    symbol # "" =>
        Cardinality(Preimages(symbol)) = (IF AlphabetIndex(symbol) <= 8 THEN 5 ELSE 4)

\* the byte 255 has been mapped to "H", the eighth character and the last with 5 bytes
C26_Witness ==
    /\ drawn = 255
    /\ symbol = "H"
    /\ AlphabetIndex(symbol) = 8
    /\ Preimages(symbol) = {7, 69, 131, 193, 255}

----------------------------------------------------------------------------
\* C3: every public resolution request ends in one of the outcomes Redirect, NotFound
\* or ResolutionFailure with a response; no failure of the store lookup leaves the
\* handler as an unhandled error.
C3_AlwaysATerminalOutcome ==
    lpc = "done" => lresp.kind \in {"redirect", "notfound", "failure"}

====
